---- MODULE Spec2Model ----
(***************************************************************************)
(* Model of the logger-context-json-serializable lint rule                 *)
(* (src/unnamed/part_002) and of the no-deprecated-exports lint rule       *)
(* (src/rules/no-call-identifiers.mjs).                                    *)
(*                                                                         *)
(* Canonical type names (checker.typeToString) are sequences of one-       *)
(* character strings, so that the name tests of the rule (regular          *)
(* expression, startsWith/endsWith, Number(...)) are computed on the       *)
(* characters as the code computes them.                                   *)
(***************************************************************************)
EXTENDS Integers, Sequences, FiniteSets, TLC

(***************************************************************************)
(* Bounds of the model.                                                    *)
(***************************************************************************)
\* Largest number of arguments of a modelled call expression.
MaxArgs == 3
\* Largest number of properties of a generated object-literal type.
MaxProps == 2
\* Largest number of CallExpression visits in one modelled lint pass.
MaxVisits == 2
\* Largest number of export visits of one create() instance.
MaxExportVisits == 3

(***************************************************************************)
(* Characters.                                                             *)
(***************************************************************************)
DecimalDigits == {"0", "1", "2", "3", "4", "5", "6", "7", "8", "9"}

HexDigits ==
    DecimalDigits \cup {"a", "b", "c", "d", "e", "f", "A", "B", "C", "D", "E", "F"}

UpperCaseLetters ==
    {"A", "B", "C", "D", "E", "F", "G", "H", "I", "J", "K", "L", "M",
     "N", "O", "P", "Q", "R", "S", "T", "U", "V", "W", "X", "Y", "Z"}

LowerCaseLetters ==
    {"a", "b", "c", "d", "e", "f", "g", "h", "i", "j", "k", "l", "m",
     "n", "o", "p", "q", "r", "s", "t", "u", "v", "w", "x", "y", "z"}

\* The regular-expression class \w.
WordCharacters ==
    UpperCaseLetters \cup LowerCaseLetters \cup DecimalDigits \cup {"_"}

DigitValue(c) ==
    CASE c = "0" -> 0 [] c = "1" -> 1 [] c = "2" -> 2 [] c = "3" -> 3
      [] c = "4" -> 4 [] c = "5" -> 5 [] c = "6" -> 6 [] c = "7" -> 7
      [] c = "8" -> 8 [] c = "9" -> 9

(***************************************************************************)
(* String helpers (String.prototype.trim and the scans behind Number).     *)
(***************************************************************************)
RECURSIVE TrimStart(_)
TrimStart(s) ==
    IF s # <<>> /\ Head(s) = " " THEN TrimStart(Tail(s)) ELSE s

RECURSIVE TrimEnd(_)
TrimEnd(s) ==
    IF s # <<>> /\ s[Len(s)] = " "
    THEN TrimEnd(SubSeq(s, 1, Len(s) - 1))
    ELSE s

Trim(s) == TrimEnd(TrimStart(s))

\* Index of the first character of s that is in the set cs, 0 when none.
RECURSIVE IndexOfAny(_, _, _)
IndexOfAny(s, cs, i) ==
    IF i > Len(s) THEN 0
    ELSE IF s[i] \in cs THEN i
    ELSE IndexOfAny(s, cs, i + 1)

AllIn(s, cs) == \A i \in 1..Len(s) : s[i] \in cs

\* Value of a string of decimal digits, saturated at 100000 (far beyond any
\* decimal exponent a double can have).
RECURSIVE DigitsToNat(_, _)
DigitsToNat(s, acc) ==
    IF s = <<>> THEN acc
    ELSE LET next == acc * 10 + DigitValue(Head(s))
         IN  DigitsToNat(Tail(s), IF next > 100000 THEN 100000 ELSE next)

RECURSIVE StripLeadingZeros(_)
StripLeadingZeros(s) ==
    IF s # <<>> /\ Head(s) = "0" THEN StripLeadingZeros(Tail(s)) ELSE s

(***************************************************************************)
(* Number(text): the StringToNumber conversion, as far as the rule uses    *)
(* it.  The result is abstracted to what Number.isFinite and               *)
(* Number.isInteger observe: kind is "nan", "infinite" or "finite", and    *)
(* integer tells whether a finite value has no fractional part.            *)
(* Rounding to a double is modelled for overflow (beyond about 1.797e308)  *)
(* and underflow to zero (below about 1e-324); the rounding of mantissas   *)
(* with more than 15 significant digits is not.                            *)
(***************************************************************************)
NaNValue == [kind |-> "nan", integer |-> FALSE]
InfiniteValue == [kind |-> "infinite", integer |-> FALSE]
FiniteValue(isInt) == [kind |-> "finite", integer |-> isInt]

\* mantissa: digits with at most one "."; exponent: an integer.
DecimalValue(intPart, fracPart, exponent) ==
    LET digits  == intPart \o fracPart
        sig     == StripLeadingZeros(digits)
        scale   == exponent - Len(fracPart)
        \* decimal exponent of the leading significant digit
        order   == (Len(sig) - 1) + scale
        lead    == DigitsToNat(SubSeq(sig \o <<"0", "0", "0">>, 1, 4), 0)
        \* digits that lie behind the decimal point once scaled
        behind  == IF scale >= 0 THEN <<>>
                   ELSE IF -scale >= Len(digits) THEN digits
                   ELSE SubSeq(digits, Len(digits) + scale + 1, Len(digits))
    IN  IF sig = <<>> THEN FiniteValue(TRUE)
        ELSE IF order > 308
                \/ (order = 308 /\ lead >= 1798)
             THEN InfiniteValue
        ELSE IF order < -324 THEN FiniteValue(TRUE)
        ELSE FiniteValue(AllIn(behind, {"0"}))

\* [+-]? digits, as in an ExponentPart; ok is FALSE when malformed.
SignedInteger(s) ==
    LET signed == s # <<>> /\ Head(s) \in {"+", "-"}
        body   == IF signed THEN Tail(s) ELSE s
    IN  IF body = <<>> \/ ~AllIn(body, DecimalDigits)
        THEN [ok |-> FALSE, value |-> 0]
        ELSE IF signed /\ Head(s) = "-"
        THEN [ok |-> TRUE, value |-> -DigitsToNat(body, 0)]
        ELSE [ok |-> TRUE, value |-> DigitsToNat(body, 0)]

\* StrUnsignedDecimalLiteral.
UnsignedDecimal(s) ==
    LET ePos     == IndexOfAny(s, {"e", "E"}, 1)
        mantissa == IF ePos = 0 THEN s ELSE SubSeq(s, 1, ePos - 1)
        expText  == IF ePos = 0 THEN <<>> ELSE SubSeq(s, ePos + 1, Len(s))
        exponent == IF ePos = 0 THEN [ok |-> TRUE, value |-> 0]
                    ELSE SignedInteger(expText)
        dotPos   == IndexOfAny(mantissa, {"."}, 1)
        intPart  == IF dotPos = 0 THEN mantissa
                    ELSE SubSeq(mantissa, 1, dotPos - 1)
        fracPart == IF dotPos = 0 THEN <<>>
                    ELSE SubSeq(mantissa, dotPos + 1, Len(mantissa))
    IN  IF s = <<"I", "n", "f", "i", "n", "i", "t", "y">> THEN InfiniteValue
        ELSE IF ~exponent.ok THEN NaNValue
        ELSE IF ~AllIn(intPart, DecimalDigits) \/ ~AllIn(fracPart, DecimalDigits)
             THEN NaNValue
        ELSE IF intPart = <<>> /\ fracPart = <<>> THEN NaNValue
        ELSE DecimalValue(intPart, fracPart, exponent.value)

\* 0x / 0o / 0b literals (no sign allowed).
NonDecimalInteger(s) ==
    LET body == SubSeq(s, 3, Len(s))
        set  == IF s[2] \in {"x", "X"} THEN HexDigits
                ELSE IF s[2] \in {"o", "O"} THEN {"0", "1", "2", "3", "4", "5", "6", "7"}
                ELSE {"0", "1"}
    IN  IF body # <<>> /\ AllIn(body, set) THEN FiniteValue(TRUE) ELSE NaNValue

Number(text) ==
    LET s == Trim(text)
    IN  IF s = <<>> THEN FiniteValue(TRUE)
        ELSE IF Len(s) >= 2 /\ s[1] = "0"
                /\ s[2] \in {"x", "X", "o", "O", "b", "B"}
             THEN NonDecimalInteger(s)
        ELSE IF Head(s) \in {"+", "-"} THEN UnsignedDecimal(Tail(s))
        ELSE UnsignedDecimal(s)

(***************************************************************************)
(* Name sets and name tests of the rule.                                   *)
(***************************************************************************)
LOGGER_METHODS == {"action", "debug", "error", "info", "warn"}

JSON_PRIMITIVE_NAMES ==
    {<<"b", "o", "o", "l", "e", "a", "n">>,
     <<"f", "a", "l", "s", "e">>,
     <<"n", "u", "l", "l">>,
     <<"n", "u", "m", "b", "e", "r">>,
     <<"s", "t", "r", "i", "n", "g">>,
     <<"t", "r", "u", "e">>}

NON_SERIALIZABLE_TYPE_NAMES ==
    {<<"b", "i", "g", "i", "n", "t">>,
     <<"D", "a", "t", "e">>,
     <<"F", "u", "n", "c", "t", "i", "o", "n">>,
     <<"M", "a", "p">>,
     <<"P", "r", "o", "m", "i", "s", "e">>,
     <<"R", "e", "g", "E", "x", "p">>,
     <<"S", "e", "t">>,
     <<"s", "y", "m", "b", "o", "l">>,
     <<"u", "n", "i", "q", "u", "e", " ", "s", "y", "m", "b", "o", "l">>,
     <<"W", "e", "a", "k", "M", "a", "p">>,
     <<"W", "e", "a", "k", "S", "e", "t">>}

JSON_LITERAL_PRIMITIVE_NAMES ==
    {<<"f", "a", "l", "s", "e">>,
     <<"n", "u", "l", "l">>,
     <<"t", "r", "u", "e">>,
     <<"u", "n", "d", "e", "f", "i", "n", "e", "d">>}

isStringLiteralTypeName(typeName) ==
    /\ Len(typeName) >= 2
    /\ typeName[1] = "\""
    /\ typeName[Len(typeName)] = "\""

\* A numeric test that accepts integers only.
isIntegerLiteralTypeName(typeName) ==
    IF \/ Len(typeName) = 0
       \/ typeName = <<"I", "n", "f", "i", "n", "i", "t", "y">>
       \/ typeName = <<"N", "a", "N">>
    THEN FALSE
    ELSE Number(typeName).kind = "finite" /\ Number(typeName).integer

isNumericLiteralTypeName(typeName) ==
    IF \/ Len(typeName) = 0
       \/ typeName = <<"I", "n", "f", "i", "n", "i", "t", "y">>
       \/ typeName = <<"N", "a", "N">>
    THEN FALSE
    ELSE Number(typeName).kind = "finite"

isBigIntLiteralTypeName(typeName) ==
    IF Len(typeName) <= 1 \/ typeName[Len(typeName)] # "n"
    THEN FALSE
    ELSE LET bigintSource == SubSeq(typeName, 1, Len(typeName) - 1)
             value == Number(bigintSource)
         IN  value.kind = "finite" /\ value.integer

\* /^[A-Z]\w*$/v
isLikelyTypeParameterName(typeName) ==
    /\ Len(typeName) >= 1
    /\ typeName[1] \in UpperCaseLetters
    /\ \A i \in 2..Len(typeName) : typeName[i] \in WordCharacters

(***************************************************************************)
(* Type descriptors.  A descriptor is identified by a tuple of strings:    *)
(* <<"base", key>> names an entry of TypeTable, <<"object", k1, ..., kn>>  *)
(* is the type of an object literal with n properties a, b, ... whose      *)
(* types are the table entries k1 ... kn.  What the type checker answers   *)
(* about a descriptor is the record TypeInfo gives for it.                 *)
(***************************************************************************)
\* Stands for "no type" (getStringIndexType() returning undefined).
NoType == <<"none">>

DeclaredProperty(type) == [valueDeclaration |-> TRUE, type |-> type]

\* A property symbol without valueDeclaration.
SyntheticProperty(type) == [valueDeclaration |-> FALSE, type |-> type]

PlainType(name) ==
    [name |-> name, isUnion |-> FALSE, isIntersection |-> FALSE,
     isTuple |-> FALSE, isArray |-> FALSE, types |-> <<>>,
     callSignatures |-> 0, constructSignatures |-> 0,
     stringIndexType |-> NoType, properties |-> <<>>]

UnionType(name, types) ==
    [PlainType(name) EXCEPT !.isUnion = TRUE, !.types = types]

IntersectionType(name, types) ==
    [PlainType(name) EXCEPT !.isIntersection = TRUE, !.types = types]

TupleType(name, typeArguments) ==
    [PlainType(name) EXCEPT !.isTuple = TRUE, !.types = typeArguments]

ArrayType(name, typeArguments) ==
    [PlainType(name) EXCEPT !.isArray = TRUE, !.types = typeArguments]

FunctionType(name) == [PlainType(name) EXCEPT !.callSignatures = 1]

ConstructorType(name) == [PlainType(name) EXCEPT !.constructSignatures = 1]

ObjectType(name, properties) ==
    [PlainType(name) EXCEPT !.properties = properties]

DictionaryType(name, indexType, properties) ==
    [PlainType(name) EXCEPT !.stringIndexType = indexType,
                            !.properties = properties]

\* The named types of the modelled program.
TypeTable ==
    "string" :>
        PlainType(
          <<"s", "t", "r", "i", "n", "g">>) @@
    "number" :>
        PlainType(
          <<"n", "u", "m", "b", "e", "r">>) @@
    "null" :>
        PlainType(
          <<"n", "u", "l", "l">>) @@
    "undefined" :>
        PlainType(
          <<"u", "n", "d", "e", "f", "i", "n", "e", "d">>) @@
    "true" :>
        PlainType(
          <<"t", "r", "u", "e">>) @@
    "false" :>
        PlainType(
          <<"f", "a", "l", "s", "e">>) @@
    "bigint" :>
        PlainType(
          <<"b", "i", "g", "i", "n", "t">>) @@
    "symbol" :>
        PlainType(
          <<"s", "y", "m", "b", "o", "l">>) @@
    "any" :>
        PlainType(
          <<"a", "n", "y">>) @@
    "unknown" :>
        PlainType(
          <<"u", "n", "k", "n", "o", "w", "n">>) @@
    "never" :>
        PlainType(
          <<"n", "e", "v", "e", "r">>) @@
    "object" :>
        PlainType(
          <<"o", "b", "j", "e", "c", "t">>) @@
    "void" :>
        PlainType(
          <<"v", "o", "i", "d">>) @@
    "boolean" :>
        UnionType(
          <<"b", "o", "o", "l", "e", "a", "n">>,
          <<<<"base", "true">>, <<"base", "false">>>>) @@
    "litUp" :>
        PlainType(
          <<"\"", "u", "p", "\"">>) @@
    "litA" :>
        PlainType(
          <<"\"", "a", "\"">>) @@
    "litB" :>
        PlainType(
          <<"\"", "b", "\"">>) @@
    "lit2" :>
        PlainType(
          <<"2">>) @@
    "litNeg" :>
        PlainType(
          <<"-", "1", ".", "5">>) @@
    "big1" :>
        PlainType(
          <<"1", "n">>) @@
    \* a type parameter
    "T" :>
        PlainType(
          <<"T">>) @@
    "fn" :>
        FunctionType(
          <<"(", ")", " ", "=", ">", " ", "n", "u", "m", "b", "e", "r">>) @@
    "ctor" :>
        ConstructorType(
          <<"n", "e", "w", " ", "(", ")", " ", "=", ">", " ", "D", "a", "t",
          "e">>) @@
    "Function" :>
        ObjectType(
          <<"F", "u", "n", "c", "t", "i", "o", "n">>,
          <<DeclaredProperty(<<"base", "fn">>)>>) @@
    \* built-in classes: their members are methods
    "Date" :>
        ObjectType(
          <<"D", "a", "t", "e">>,
          <<DeclaredProperty(<<"base", "fn">>)>>) @@
    "RegExp" :>
        ObjectType(
          <<"R", "e", "g", "E", "x", "p">>,
          <<DeclaredProperty(<<"base", "fn">>), DeclaredProperty(<<"base", "string">>)>>) @@
    "Map" :>
        ObjectType(
          <<"M", "a", "p", "<", "s", "t", "r", "i", "n", "g", ",", " ", "n",
          "u", "m", "b", "e", "r", ">">>,
          <<DeclaredProperty(<<"base", "fn">>), DeclaredProperty(<<"base", "number">>)>>) @@
    "Set" :>
        ObjectType(
          <<"S", "e", "t", "<", "s", "t", "r", "i", "n", "g", ">">>,
          <<DeclaredProperty(<<"base", "fn">>), DeclaredProperty(<<"base", "number">>)>>) @@
    "Promise" :>
        ObjectType(
          <<"P", "r", "o", "m", "i", "s", "e", "<", "s", "t", "r", "i", "n",
          "g", ">">>,
          <<DeclaredProperty(<<"base", "fn">>)>>) @@
    "Error" :>
        ObjectType(
          <<"E", "r", "r", "o", "r">>,
          <<DeclaredProperty(<<"base", "string">>), DeclaredProperty(<<"base", "string">>), DeclaredProperty(<<"base", "string">>)>>) @@
    \* types without properties
    "emptyObject" :>
        ObjectType(
          <<"{", "}">>,
          <<>>) @@
    "Marker" :>
        ObjectType(
          <<"M", "a", "r", "k", "e", "r">>,
          <<>>) @@
    "Brand" :>
        ObjectType(
          <<"B", "r", "a", "n", "d", "<", "s", "t", "r", "i", "n", "g", ">">>,
          <<>>) @@
    \* arrays and tuples
    "stringArray" :>
        ArrayType(
          <<"s", "t", "r", "i", "n", "g", "[", "]">>,
          <<<<"base", "string">>>>) @@
    "numberArray" :>
        ArrayType(
          <<"n", "u", "m", "b", "e", "r", "[", "]">>,
          <<<<"base", "number">>>>) @@
    "dateArray" :>
        ArrayType(
          <<"D", "a", "t", "e", "[", "]">>,
          <<<<"base", "Date">>>>) @@
    "okTuple" :>
        TupleType(
          <<"[", "s", "t", "r", "i", "n", "g", ",", " ", "n", "u", "m", "b",
          "e", "r", "]">>,
          <<<<"base", "string">>, <<"base", "number">>>>) @@
    "badTuple" :>
        TupleType(
          <<"[", "s", "t", "r", "i", "n", "g", ",", " ", "D", "a", "t", "e",
          "]">>,
          <<<<"base", "string">>, <<"base", "Date">>>>) @@
    "emptyTuple" :>
        TupleType(
          <<"[", "]">>,
          <<>>) @@
    \* a named interface with a Date member
    "Payload" :>
        ObjectType(
          <<"P", "a", "y", "l", "o", "a", "d">>,
          <<DeclaredProperty(<<"base", "string">>), DeclaredProperty(<<"base", "Date">>)>>) @@
    \* generic interfaces
    "Stamp" :>
        ObjectType(
          <<"S", "t", "a", "m", "p", "<", "D", "a", "t", "e", ">">>,
          <<DeclaredProperty(<<"base", "Date">>)>>) @@
    "Tag" :>
        ObjectType(
          <<"T", "a", "g", "<", "s", "t", "r", "i", "n", "g", ">">>,
          <<DeclaredProperty(<<"base", "string">>)>>) @@
    \* unions and intersections
    "okUnion" :>
        UnionType(
          <<"s", "t", "r", "i", "n", "g", " ", "|", " ", "n", "u", "m", "b",
          "e", "r">>,
          <<<<"base", "string">>, <<"base", "number">>>>) @@
    "badUnion" :>
        UnionType(
          <<"s", "t", "r", "i", "n", "g", " ", "|", " ", "D", "a", "t", "e">>,
          <<<<"base", "string">>, <<"base", "Date">>>>) @@
    "aliasUnion" :>
        UnionType(
          <<"R", "e", "s", "u", "l", "t">>,
          <<<<"base", "string">>, <<"base", "Date">>>>) @@
    "litUnion" :>
        UnionType(
          <<"\"", "a", "\"", " ", "|", " ", "\"", "b", "\"">>,
          <<<<"base", "litA">>, <<"base", "litB">>>>) @@
    "quotedUnion" :>
        UnionType(
          <<"\"", "a", "\"", " ", "|", " ", "D", "a", "t", "e", " ", "|", " ",
          "\"", "b", "\"">>,
          <<<<"base", "litA">>, <<"base", "Date">>, <<"base", "litB">>>>) @@
    "sharedUnion" :>
        UnionType(
          <<"S", "t", "a", "m", "p", "<", "D", "a", "t", "e", ">", " ", "|",
          " ", "T", "a", "g", "<", "s", "t", "r", "i", "n", "g", ">">>,
          <<<<"base", "Stamp">>, <<"base", "Tag">>>>) @@
    "okIntersection" :>
        IntersectionType(
          <<"T", "a", "g", "<", "s", "t", "r", "i", "n", "g", ">", " ", "&",
          " ", "{", " ", "i", "d", ":", " ", "n", "u", "m", "b", "e", "r",
          ";", " ", "}">>,
          <<<<"base", "Tag">>, <<"base", "idObject">>>>) @@
    "badIntersection" :>
        IntersectionType(
          <<"T", "a", "g", "<", "s", "t", "r", "i", "n", "g", ">", " ", "&",
          " ", "S", "t", "a", "m", "p", "<", "D", "a", "t", "e", ">">>,
          <<<<"base", "Tag">>, <<"base", "Stamp">>>>) @@
    "aliasIntersection" :>
        IntersectionType(
          <<"C", "o", "m", "b", "i", "n", "e", "d">>,
          <<<<"base", "Tag">>, <<"base", "Stamp">>>>) @@
    "idObject" :>
        ObjectType(
          <<"{", " ", "i", "d", ":", " ", "n", "u", "m", "b", "e", "r", ";",
          " ", "}">>,
          <<DeclaredProperty(<<"base", "number">>)>>) @@
    \* index signatures
    "numberDictionary" :>
        DictionaryType(
          <<"{", " ", "[", "k", "e", "y", ":", " ", "s", "t", "r", "i", "n",
          "g", "]", ":", " ", "n", "u", "m", "b", "e", "r", ";", " ", "}">>,
          <<"base", "number">>,
          <<>>) @@
    "dateDictionary" :>
        DictionaryType(
          <<"{", " ", "[", "k", "e", "y", ":", " ", "s", "t", "r", "i", "n",
          "g", "]", ":", " ", "D", "a", "t", "e", ";", " ", "}">>,
          <<"base", "Date">>,
          <<>>) @@
    "hidingDictionary" :>
        DictionaryType(
          <<"{", " ", "[", "k", "e", "y", ":", " ", "s", "t", "r", "i", "n",
          "g", "]", ":", " ", "u", "n", "k", "n", "o", "w", "n", ";", " ",
          "w", "h", "e", "n", ":", " ", "D", "a", "t", "e", ";", " ", "}">>,
          <<"base", "unknown">>,
          <<DeclaredProperty(<<"base", "Date">>)>>) @@
    \* self-referential types
    "List" :>
        ObjectType(
          <<"L", "i", "s", "t", "<", "n", "u", "m", "b", "e", "r", ">">>,
          <<DeclaredProperty(<<"base", "number">>), DeclaredProperty(<<"base", "List">>)>>) @@
    "Chain" :>
        ObjectType(
          <<"C", "h", "a", "i", "n", "<", "D", "a", "t", "e", ">">>,
          <<DeclaredProperty(<<"base", "Chain">>), DeclaredProperty(<<"base", "Date">>)>>) @@
    "Loop" :>
        ObjectType(
          <<"L", "o", "o", "p", "<", "D", "a", "t", "e", ">">>,
          <<DeclaredProperty(<<"base", "Date">>), DeclaredProperty(<<"base", "Loop">>)>>) @@
    "Tree" :>
        ObjectType(
          <<"T", "r", "e", "e", "<", "s", "t", "r", "i", "n", "g", ">">>,
          <<DeclaredProperty(<<"base", "string">>), DeclaredProperty(<<"base", "treeArray">>)>>) @@
    "treeArray" :>
        ArrayType(
          <<"T", "r", "e", "e", "<", "s", "t", "r", "i", "n", "g", ">", "[",
          "]">>,
          <<<<"base", "Tree">>>>) @@
    "Ping" :>
        ObjectType(
          <<"P", "i", "n", "g", "<", "D", "a", "t", "e", ">">>,
          <<DeclaredProperty(<<"base", "Pong">>)>>) @@
    "Pong" :>
        ObjectType(
          <<"P", "o", "n", "g", "<", "D", "a", "t", "e", ">">>,
          <<DeclaredProperty(<<"base", "Ping">>), DeclaredProperty(<<"base", "Date">>)>>) @@
    \* properties without a value declaration
    "dateRecord" :>
        ObjectType(
          <<"R", "e", "c", "o", "r", "d", "<", "\"", "a", "\"", " ", "|", " ",
          "\"", "b", "\"", ",", " ", "D", "a", "t", "e", ">">>,
          <<SyntheticProperty(<<"base", "Date">>), SyntheticProperty(<<"base", "Date">>)>>)

BaseTypes == {<<"base", key>> : key \in DOMAIN TypeTable}

PropertyNames == <<"a", "b", "c", "d">>

\* "{ a: X; b: Y; }", the way typeToString prints an object literal type.
RECURSIVE ObjectMembersText(_, _)
ObjectMembersText(keys, i) ==
    IF i > Len(keys) THEN <<>>
    ELSE <<PropertyNames[i], ":", " ">> \o TypeTable[keys[i]].name
         \o <<";", " ">> \o ObjectMembersText(keys, i + 1)

ObjectLiteralType(keys) ==
    ObjectType(<<"{", " ">> \o ObjectMembersText(keys, 1) \o <<"}">>,
               [i \in 1..Len(keys) |-> DeclaredProperty(<<"base", keys[i]>>)])

TypeInfo(type) ==
    IF type[1] = "base" THEN TypeTable[type[2]]
    ELSE ObjectLiteralType(Tail(type))

\* checker.typeToString(type)
typeToString(type) == TypeInfo(type).name

\* Table keys of the JSON primitive types, their literals and arrays.
JsonPropertyKeys == {"string", "number", "litNeg", "stringArray"}

\* Table keys of the types that are wrapped into a one-property literal.
WrappedKeys ==
    JsonPropertyKeys \cup
    {"boolean", "null", "true", "litUp", "lit2", "numberArray",
     "Date", "Error", "Payload", "aliasUnion", "quotedUnion", "badUnion",
     "hidingDictionary", "dateRecord", "Chain", "List", "Marker", "Brand",
     "emptyObject", "Promise", "fn"}

RECURSIVE KeyTuples(_, _)
KeyTuples(keys, n) ==
    IF n = 0 THEN {<<>>}
    ELSE {<<k>> \o rest : k \in keys, rest \in KeyTuples(keys, n - 1)}

\* The types of the object literals of the modelled program.
ObjectLiteralTypes ==
    {<<"object", k>> : k \in WrappedKeys}
        \cup UNION {{<<"object">> \o ks : ks \in KeyTuples(JsonPropertyKeys, n)}
                    : n \in 2..MaxProps}

Types == BaseTypes \cup ObjectLiteralTypes

(***************************************************************************)
(* isJsonSerializableType.                                                 *)
(*                                                                         *)
(* The recursion is run as a machine.  A configuration holds the visited   *)
(* set `seen` shared by all recursive calls, the stack of calls that are   *)
(* inside an every(...) over their members (`rest` are the members not     *)
(* yet tested), the value `ret` being returned to the call on top of the   *)
(* stack ("none" while no call is returning), and `expanded`, the types in *)
(* the order seen.add(type) was executed.                                  *)
(***************************************************************************)
\* What one call decides after seen.add(type): "true" or "false" when the
\* call returns at once, "every" when it returns members.every(recursive call).
Decided(value) == [verdict |-> value, members |-> <<>>]
Every(members) == [verdict |-> "every", members |-> members]

\* The types of the properties the every(...) callback recurses into: a
\* property without valueDeclaration makes the callback return true.
RECURSIVE DeclaredPropertyTypes(_)
DeclaredPropertyTypes(properties) ==
    IF properties = <<>> THEN <<>>
    ELSE IF Head(properties).valueDeclaration
         THEN <<Head(properties).type>> \o DeclaredPropertyTypes(Tail(properties))
         ELSE DeclaredPropertyTypes(Tail(properties))

\* Lines 144-245: the body of isJsonSerializableType below seen.add(type).
ClassifyBody(type) ==
    LET info     == TypeInfo(type)
        typeName == Trim(typeToString(type))
    IN  IF \/ typeName \in NON_SERIALIZABLE_TYPE_NAMES
           \/ isBigIntLiteralTypeName(typeName)
        THEN Decided("false")
        ELSE IF \/ typeName = <<"a", "n", "y">>
                \/ typeName = <<"n", "e", "v", "e", "r">>
                \/ typeName = <<"u", "n", "k", "n", "o", "w", "n">>
                \/ isLikelyTypeParameterName(typeName)
        THEN Decided("true")
        ELSE IF \/ typeName \in JSON_LITERAL_PRIMITIVE_NAMES
                \/ isStringLiteralTypeName(typeName)
                \/ isNumericLiteralTypeName(typeName)
        THEN Decided("true")
        ELSE IF typeName \in JSON_PRIMITIVE_NAMES
        THEN Decided("true")
        ELSE IF info.isUnion THEN Every(info.types)
        ELSE IF info.isIntersection THEN Every(info.types)
        ELSE IF info.isTuple THEN Every(info.types)
        ELSE IF info.isArray
        THEN IF info.types = <<>> THEN Decided("true")
             ELSE Every(<<info.types[1]>>)
        ELSE IF info.callSignatures > 0 \/ info.constructSignatures > 0
        THEN Decided("false")
        ELSE IF info.stringIndexType # NoType
        THEN Every(<<info.stringIndexType>>)
        ELSE IF Len(info.properties) = 0 /\ typeName # <<"{", "}">>
        THEN Decided("false")
        ELSE Every(DeclaredPropertyTypes(info.properties))

\* ClassifyBody, tabulated over the types of the modelled program.
ClassifyBodies == [type \in Types |-> ClassifyBody(type)]

\* The configuration of a top-level call before it starts: the default
\* parameter `seen = new Set()`.
FreshCall == [stack |-> <<>>, seen |-> {}, ret |-> "none", expanded |-> <<>>]

\* A call that answers false for a type that is already visited.
InvokeRejectingVisited(cfg, type) ==
    IF type \in cfg.seen
    THEN [cfg EXCEPT !.ret = "false"]
    ELSE LET body  == ClassifyBodies[type]
             added == [cfg EXCEPT !.seen = cfg.seen \cup {type},
                                  !.expanded = Append(cfg.expanded, type)]
         IN  IF body.verdict = "every"
             THEN [added EXCEPT
                     !.stack = Append(added.stack,
                                      [type |-> type, rest |-> body.members])]
             ELSE [added EXCEPT !.ret = body.verdict]

\* Lines 137-142: a call isJsonSerializableType(checker, type, seen).
Invoke(cfg, type) ==
    IF type \in cfg.seen
    THEN [cfg EXCEPT !.ret = "true"]
    ELSE LET body  == ClassifyBodies[type]
             added == [cfg EXCEPT !.seen = cfg.seen \cup {type},
                                  !.expanded = Append(cfg.expanded, type)]
         IN  IF body.verdict = "every"
             THEN [added EXCEPT
                     !.stack = Append(added.stack,
                                      [type |-> type, rest |-> body.members])]
             ELSE [added EXCEPT !.ret = body.verdict]

\* The top-level call has returned.
Returned(cfg) == cfg.stack = <<>> /\ cfg.ret # "none"

\* One step of the calls in progress.
ClassifyNext(cfg) ==
    LET depth == Len(cfg.stack)
        top   == cfg.stack[depth]
        below == SubSeq(cfg.stack, 1, depth - 1)
    IN  IF cfg.ret = "false"
        \* every(...) stops at the first false and the call returns false
        THEN [cfg EXCEPT !.stack = below]
        ELSE IF cfg.ret = "true"
        \* every(...) goes on to the next member
        THEN [cfg EXCEPT !.ret = "none"]
        ELSE IF top.rest = <<>>
        \* every(...) has run out of members: the call returns true
        THEN [cfg EXCEPT !.stack = below, !.ret = "true"]
        ELSE Invoke([cfg EXCEPT !.stack[depth].rest = Tail(top.rest)],
                    Head(top.rest))

RECURSIVE RunToReturn(_)
RunToReturn(cfg) ==
    IF Returned(cfg) THEN cfg ELSE RunToReturn(ClassifyNext(cfg))

\* isJsonSerializableType(checker, type), a top-level call run to its end.
isJsonSerializableType(type) ==
    RunToReturn(Invoke(FreshCall, type)).ret = "true"

(***************************************************************************)
(* The syntax tree.  A call expression is a record of its callee and its   *)
(* arguments; an argument is a record of its node type, of the type the    *)
(* checker resolves for it, and of its position among the arguments (two   *)
(* nodes at different positions are different nodes).                      *)
(***************************************************************************)
Undefined == [type |-> "undefined", tsType |-> NoType, index |-> -1]

Argument(type, tsType, index) ==
    [type |-> type, tsType |-> tsType, index |-> index]

\* logger.name(...)
MemberCallee(name) ==
    [type |-> "MemberExpression", computed |-> FALSE,
     property |-> [type |-> "Identifier", name |-> name]]

\* logger[debug](...), this.#debug(...), debug(...)
OtherCallees ==
    {[type |-> "MemberExpression", computed |-> TRUE,
      property |-> [type |-> "Identifier", name |-> "debug"]],
     [type |-> "MemberExpression", computed |-> FALSE,
      property |-> [type |-> "PrivateIdentifier", name |-> "debug"]],
     [type |-> "Identifier", computed |-> FALSE,
      property |-> [type |-> "none", name |-> "debug"]]}

Callees ==
    {MemberCallee(name) : name \in LOGGER_METHODS \cup {"log"}}
        \cup OtherCallees

\* What can stand at an argument position: node type and resolved type.
ArgumentShapes ==
    {<<"ObjectExpression", <<"object", "Date">>>>,
     <<"ObjectExpression", <<"object", "string">>>>,
     <<"ObjectExpression", <<"object", "Error">>>>,
     <<"ArrayExpression", <<"base", "dateArray">>>>,
     <<"Literal", <<"base", "big1">>>>,
     <<"TemplateLiteral", <<"base", "string">>>>,
     <<"Identifier", <<"base", "Date">>>>,
     <<"Identifier", <<"base", "unknown">>>>,
     <<"SpreadElement", <<"base", "dateArray">>>>,
     <<"CallExpression", <<"base", "Promise">>>>,
     <<"NewExpression", <<"base", "Date">>>>}

\* The shapes that accompany a varied argument at the other positions.
CompanionShapes ==
    {<<"ObjectExpression", <<"object", "Date">>>>,
     <<"Identifier", <<"base", "Error">>>>}

MessageShape == <<"Literal", <<"base", "litUp">>>>

ToArguments(shapes) ==
    [i \in 1..Len(shapes) |-> Argument(shapes[i][1], shapes[i][2], i - 1)]

\* Argument lists: the message, then one varied position (index 1 or 2)
\* among companions.
RECURSIVE ShapeTuples(_, _, _)
ShapeTuples(n, varied, i) ==
    IF i > n THEN {<<>>}
    ELSE {<<sh>> \o rest :
            sh \in (IF i = 1 THEN {MessageShape}
                    ELSE IF i = varied THEN ArgumentShapes
                    ELSE CompanionShapes),
            rest \in ShapeTuples(n, varied, i + 1)}

ArgumentLists ==
    UNION {ShapeTuples(n, varied, 1) : n \in 2..MaxArgs, varied \in 2..3}

\* Argument lists of every length: the message, then object literals with a
\* Date property, the first of them possibly replaced by a harmless one.
PlainLists ==
    LET bad  == <<"ObjectExpression", <<"object", "Date">>>>
        good == <<"ObjectExpression", <<"object", "string">>>>
    IN  {[i \in 1..n |-> IF i = 1 THEN MessageShape ELSE bad] : n \in 0..MaxArgs}
            \cup {[i \in 1..n |-> IF i = 1 THEN MessageShape
                                  ELSE IF i = 2 THEN good ELSE bad]
                     : n \in 2..MaxArgs}

\* Calls whose context argument is an object literal of every literal type.
ObjectLiteralCalls ==
    {[callee |-> MemberCallee(m),
      arguments |-> ToArguments(<<MessageShape, <<"ObjectExpression", t>>>>)]
        : m \in {"info"}, t \in ObjectLiteralTypes}

\* The call expressions of the modelled program.
Nodes ==
    {[callee |-> c, arguments |-> ToArguments(shapes)]
        : c \in Callees, shapes \in PlainLists}
        \cup {[callee |-> MemberCallee(m), arguments |-> ToArguments(shapes)]
                : m \in {"error", "debug"}, shapes \in ArgumentLists}
        \cup ObjectLiteralCalls

NoNode == [callee |-> [type |-> "none", computed |-> FALSE,
                       property |-> [type |-> "none", name |-> ""]],
           arguments |-> <<>>]

(***************************************************************************)
(* The rule.                                                               *)
(***************************************************************************)
\* A gate that also lets identifiers through.
isContextLiteralOrIdentifier(arg) ==
    IF arg.type = "SpreadElement" THEN FALSE
    ELSE arg.type \in {"ArrayExpression", "Literal", "ObjectExpression",
                       "TemplateLiteral", "Identifier"}

\* Lines 96-107.
isContextLiteralExpression(arg) ==
    IF arg.type = "SpreadElement" THEN FALSE
    ELSE \/ arg.type = "ArrayExpression"
         \/ arg.type = "Literal"
         \/ arg.type = "ObjectExpression"
         \/ arg.type = "TemplateLiteral"

\* Array.prototype.at for a non-negative index.
At(sequence, index) ==
    IF index + 1 \in DOMAIN sequence THEN sequence[index + 1] ELSE Undefined

\* A selector that takes index 1 for every method.
getSecondArgumentForMethod(loggerMethod, callExpression) ==
    LET candidate == At(callExpression.arguments, 1)
    IN  IF candidate = Undefined \/ ~isContextLiteralExpression(candidate)
        THEN Undefined
        ELSE candidate

\* Lines 115-128.
getContextArgumentForMethod(loggerMethod, callExpression) ==
    LET targetIndex == IF loggerMethod = "error" THEN 2 ELSE 1
        candidate   == At(callExpression.arguments, targetIndex)
    IN  IF candidate = Undefined \/ ~isContextLiteralExpression(candidate)
        THEN Undefined
        ELSE candidate

\* Lines 252-268; "" stands for undefined.
getLoggerMethod(callee) ==
    IF \/ callee.type # "MemberExpression"
       \/ callee.computed
       \/ callee.property.type # "Identifier"
    THEN ""
    ELSE IF callee.property.name \notin LOGGER_METHODS THEN ""
    ELSE callee.property.name

\* parserServices.esTreeNodeToTSNodeMap.get + checker.getTypeAtLocation
getTypeAtLocation(arg) == arg.tsType

\* A descriptor with a fixed method name.
ReportDescriptorFixedMethod(loggerMethod, contextArg) ==
    [data |-> [method |-> "error"],
     messageId |-> "loggerContextMustBeJsonSerializable",
     node |-> contextArg]

\* Lines 303-309: the descriptor handed to context.report.
ReportDescriptor(loggerMethod, contextArg) ==
    [data |-> [method |-> loggerMethod],
     messageId |-> "loggerContextMustBeJsonSerializable",
     node |-> contextArg]

(***************************************************************************)
(* no-deprecated-exports (src/rules/no-call-identifiers.mjs).              *)
(*                                                                         *)
(* The nodes of the linted module are numbered; ExportProgram gives, for   *)
(* a node, its type, its declaration (NullNode when it has none), what     *)
(* sourceCode.getJSDocComment and sourceCode.getCommentsBefore answer for  *)
(* it, and its loc.  The value of a comment is a sequence of characters,   *)
(* so that trimStart, startsWith and the regular expression are computed   *)
(* on the characters.                                                      *)
(***************************************************************************)
UpperCaseAlphabet ==
    <<"A", "B", "C", "D", "E", "F", "G", "H", "I", "J", "K", "L", "M",
      "N", "O", "P", "Q", "R", "S", "T", "U", "V", "W", "X", "Y", "Z">>

LowerCaseAlphabet ==
    <<"a", "b", "c", "d", "e", "f", "g", "h", "i", "j", "k", "l", "m",
      "n", "o", "p", "q", "r", "s", "t", "u", "v", "w", "x", "y", "z">>

\* The case folding of the flag i.
Canonicalize(c) ==
    IF c \in UpperCaseLetters
    THEN LowerCaseAlphabet[CHOOSE i \in DOMAIN UpperCaseAlphabet :
                             UpperCaseAlphabet[i] = c]
    ELSE c

DEPRECATED_TAG ==
    <<"@", "d", "e", "p", "r", "e", "c", "a", "t", "e", "d">>

\* /@deprecated\b/iv matches at position i of the value.
DeprecatedTagAt(value, i) ==
    /\ i + Len(DEPRECATED_TAG) - 1 <= Len(value)
    /\ \A k \in DOMAIN DEPRECATED_TAG :
          Canonicalize(value[i + k - 1]) = DEPRECATED_TAG[k]
    /\ \/ i + Len(DEPRECATED_TAG) > Len(value)
       \/ value[i + Len(DEPRECATED_TAG)] \notin WordCharacters

\* DEPRECATED_TAG_PATTERN.test(value): the pattern has no g or y flag, the
\* search starts at the first character every time.
RECURSIVE SearchDeprecatedTag(_, _)
SearchDeprecatedTag(value, i) ==
    IF i > Len(value) THEN FALSE
    ELSE IF DeprecatedTagAt(value, i) THEN TRUE
    ELSE SearchDeprecatedTag(value, i + 1)

DEPRECATED_TAG_PATTERN(value) == SearchDeprecatedTag(value, 1)

Comment(type, value, endLine) ==
    [type |-> type, value |-> value,
     loc |-> [present |-> TRUE, endLine |-> endLine]]

CommentWithoutLoc(type, value) ==
    [type |-> type, value |-> value,
     loc |-> [present |-> FALSE, endLine |-> 0]]

NullComment == CommentWithoutLoc("null", <<>>)

\* /** @deprecated Use y. */
DeprecatedText ==
    <<"*", " ", "@", "d", "e", "p", "r", "e", "c", "a", "t", "e", "d", " ",
    "U", "s", "e", " ", "y", ".", " ">>

\* /** @Deprecated*/
UpperCaseTagText ==
    <<"*", " ", "@", "D", "e", "p", "r", "e", "c", "a", "t", "e", "d">>

\* /** Fine. */
PlainText ==
    <<"*", " ", "F", "i", "n", "e", ".", " ">>

\* /** @deprecated_api */
LookalikeText ==
    <<"*", " ", "@", "d", "e", "p", "r", "e", "c", "a", "t", "e", "d", "_",
    "a", "p", "i", " ">>

\* /* @deprecated */
StarlessText ==
    <<" ", "@", "d", "e", "p", "r", "e", "c", "a", "t", "e", "d", " ">>

\* /*  * @deprecated */
IndentedText ==
    <<" ", " ", "*", " ", "@", "d", "e", "p", "r", "e", "c", "a", "t", "e",
    "d", " ">>

\* The line every modelled node starts on.
StartLine == 10

\* What the source code holds about a node: the answer of getJSDocComment,
\* the answer of getCommentsBefore, and whether the node has a loc.
Situation(jsdoc, commentsBefore, hasLoc) ==
    [jsdoc |-> jsdoc, commentsBefore |-> commentsBefore,
     loc |-> [present |-> hasLoc, startLine |-> StartLine]]

Bare == Situation(NullComment, <<>>, TRUE)

\* found by getJSDocComment only
FoundByGetJSDocComment ==
    Situation(Comment("Block", DeprecatedText, StartLine - 1), <<>>, TRUE)

\* found among the comments before the node
DeprecatedBefore ==
    Situation(NullComment,
              <<Comment("Block", DeprecatedText, StartLine - 1)>>, TRUE)

PlainBefore ==
    Situation(NullComment, <<Comment("Block", PlainText, StartLine - 1)>>, TRUE)

UpperCaseTagBefore ==
    Situation(NullComment,
              <<Comment("Block", UpperCaseTagText, StartLine)>>, TRUE)

LookalikeBefore ==
    Situation(NullComment,
              <<Comment("Block", LookalikeText, StartLine - 1)>>, TRUE)

\* not JSDoc: no leading star, or a line comment
StarlessBefore ==
    Situation(NullComment,
              <<Comment("Block", StarlessText, StartLine - 1)>>, TRUE)

LineCommentBefore ==
    Situation(NullComment,
              <<Comment("Line", DeprecatedText, StartLine - 1)>>, TRUE)

IndentedBefore ==
    Situation(NullComment,
              <<Comment("Block", IndentedText, StartLine - 1)>>, TRUE)

\* a blank line between the comment and the node
DeprecatedFarBefore ==
    Situation(NullComment,
              <<Comment("Block", DeprecatedText, StartLine - 2)>>, TRUE)

\* the last comment is the one that counts
DeprecatedThenPlainBefore ==
    Situation(NullComment,
              <<Comment("Block", DeprecatedText, StartLine - 4),
                Comment("Block", PlainText, StartLine - 1)>>, TRUE)

\* no loc on the comment, no loc on the node
CommentWithoutLocBefore ==
    Situation(NullComment, <<CommentWithoutLoc("Block", DeprecatedText)>>, TRUE)

DeprecatedBeforeNodeWithoutLoc ==
    Situation(NullComment,
              <<Comment("Block", DeprecatedText, StartLine - 1)>>, FALSE)

\* getJSDocComment and getCommentsBefore disagree
PlainFoundDeprecatedBefore ==
    Situation(Comment("Block", PlainText, StartLine - 1),
              <<Comment("Block", DeprecatedText, StartLine - 1)>>, TRUE)

\* An export: the type of the export node, the type of its declaration
\* ("" when it has none), the situation of its declaration (Bare when it
\* has none) and the situation of the export node.
ExportShape(type, declaration, ofDeclaration, ofExport) ==
    [type |-> type, declaration |-> declaration,
     ofDeclaration |-> ofDeclaration, ofExport |-> ofExport]

\* export function f() {}
ExportedFunction(situation) ==
    ExportShape("ExportNamedDeclaration", "FunctionDeclaration",
                situation, Bare)

ExportShapes ==
    <<ExportedFunction(Bare),
      ExportedFunction(FoundByGetJSDocComment),
      ExportedFunction(DeprecatedBefore),
      ExportedFunction(PlainBefore),
      ExportedFunction(UpperCaseTagBefore),
      ExportedFunction(LookalikeBefore),
      ExportedFunction(StarlessBefore),
      ExportedFunction(LineCommentBefore),
      ExportedFunction(IndentedBefore),
      ExportedFunction(DeprecatedFarBefore),
      ExportedFunction(DeprecatedThenPlainBefore),
      ExportedFunction(CommentWithoutLocBefore),
      ExportedFunction(DeprecatedBeforeNodeWithoutLoc),
      ExportedFunction(PlainFoundDeprecatedBefore),
      \* the comment stands before the export keyword
      ExportShape("ExportNamedDeclaration", "FunctionDeclaration",
                  Bare, DeprecatedBefore),
      \* export { a }
      ExportShape("ExportNamedDeclaration", "", Bare, Bare),
      ExportShape("ExportNamedDeclaration", "", Bare, FoundByGetJSDocComment),
      ExportShape("ExportNamedDeclaration", "", Bare, DeprecatedBefore),
      \* export default a
      ExportShape("ExportDefaultDeclaration", "Identifier", Bare, Bare),
      ExportShape("ExportDefaultDeclaration", "Identifier",
                  Bare, FoundByGetJSDocComment),
      ExportShape("ExportDefaultDeclaration", "Identifier",
                  Bare, DeprecatedBefore),
      ExportShape("ExportDefaultDeclaration", "Identifier",
                  DeprecatedBefore, PlainBefore),
      \* export default class {}
      ExportShape("ExportDefaultDeclaration", "ClassDeclaration", Bare, Bare),
      ExportShape("ExportDefaultDeclaration", "ClassDeclaration",
                  FoundByGetJSDocComment, Bare),
      ExportShape("ExportDefaultDeclaration", "ClassDeclaration",
                  DeprecatedBefore, Bare),
      ExportShape("ExportDefaultDeclaration", "ClassDeclaration",
                  PlainBefore, DeprecatedBefore)>>

\* null and undefined nodes
NullNode == 0

\* The k-th export is node 2k - 1 and its declaration node 2k.
ExportNodes == {2 * k - 1 : k \in DOMAIN ExportShapes}

HasDeclaration(shape) == shape.declaration # ""

DeclarationNodes ==
    {2 * k : k \in {j \in DOMAIN ExportShapes : HasDeclaration(ExportShapes[j])}}

NodeOf(type, declaration, situation) ==
    [type |-> type, declaration |-> declaration,
     jsdoc |-> situation.jsdoc,
     commentsBefore |-> situation.commentsBefore,
     loc |-> situation.loc]

NodeOfShape(shape, id) ==
    IF id % 2 = 1
    THEN NodeOf(shape.type,
                IF HasDeclaration(shape) THEN id + 1 ELSE NullNode,
                shape.ofExport)
    ELSE NodeOf(shape.declaration, NullNode, shape.ofDeclaration)

ExportProgram ==
    [id \in ExportNodes \cup DeclarationNodes |->
        NodeOfShape(ExportShapes[(id + 1) \div 2], id)]

\* The sourceCode objects: ESLint up to 8 has getJSDocComment, 9 has not.
SourceCodeObject(typeofGetJSDocComment) ==
    [type |-> "SourceCode", getJSDocComment |-> typeofGetJSDocComment]

UndefinedSourceCode ==
    [type |-> "undefined", getJSDocComment |-> "undefined"]

SourceCodes == {SourceCodeObject("function"), SourceCodeObject("undefined")}

\* The rule contexts: context.sourceCode, and what context.getSourceCode()
\* returns (UndefinedSourceCode when the context has no such method).
Contexts ==
    {[sourceCode |-> sc, getSourceCode |-> UndefinedSourceCode] :
        sc \in SourceCodes}
    \cup {[sourceCode |-> UndefinedSourceCode, getSourceCode |-> sc] :
            sc \in SourceCodes \cup {UndefinedSourceCode}}

VARIABLES
    \* the rule: the call expression visited last, the values of the
    \* handler's contextArg and contextType when it returned (Undefined and
    \* NoType when it returned before setting them), the diagnostics
    \* reported so far in the lint pass, and the number of visits
    node, contextArg, contextType, reports, nVisits,
    \* isJsonSerializableType run step by step: the type of the top-level
    \* call, the configuration of the calls in progress, and the verdict of
    \* the previous top-level call with whether it was for the same type
    root, stack, seen, ret, expanded, previousVerdict, repeated,
    \* no-deprecated-exports: whether create(context) has run, the
    \* sourceCode and the inspectedNodes of its closure, the diagnostics
    \* reported, the nodes getJSDocument was called for by
    \* reportIfDeprecated, and the export nodes visited, in order
    created, sourceCode, inspectedNodes, deprecatedReports, inspections,
    exportVisits

ruleVars == <<node, contextArg, contextType, reports, nVisits>>
callVars == <<root, stack, seen, ret, expanded, previousVerdict, repeated>>
exportVars == <<created, sourceCode, inspectedNodes, deprecatedReports,
                inspections, exportVisits>>
vars == <<node, contextArg, contextType, reports, nVisits,
          root, stack, seen, ret, expanded, previousVerdict, repeated,
          created, sourceCode, inspectedNodes, deprecatedReports,
          inspections, exportVisits>>

Init ==
    /\ node = NoNode
    /\ contextArg = Undefined
    /\ contextType = NoType
    /\ reports = <<>>
    /\ nVisits = 0
    /\ root = NoType
    /\ stack = <<>>
    /\ seen = {}
    /\ ret = "none"
    /\ expanded = <<>>
    /\ previousVerdict = "none"
    /\ repeated = FALSE
    /\ created = FALSE
    /\ sourceCode = UndefinedSourceCode
    /\ inspectedNodes = {}
    /\ deprecatedReports = <<>>
    /\ inspections = <<>>
    /\ exportVisits = <<>>

\* Lines 284-310: the CallExpression visitor, for one node of the tree.
CallExpression(n) ==
    LET loggerMethod == getLoggerMethod(n.callee)
        selected     == getContextArgumentForMethod(loggerMethod, n)
    IN  /\ nVisits < MaxVisits
        /\ nVisits' = nVisits + 1
        /\ node' = n
        /\ IF loggerMethod = "" \/ Len(n.arguments) < 2
           THEN /\ contextArg' = Undefined
                /\ contextType' = NoType
                /\ reports' = reports
           ELSE IF selected = Undefined
           THEN /\ contextArg' = Undefined
                /\ contextType' = NoType
                /\ reports' = reports
           ELSE /\ contextArg' = selected
                /\ contextType' = getTypeAtLocation(selected)
                /\ IF isJsonSerializableType(getTypeAtLocation(selected))
                   THEN reports' = reports
                   ELSE reports' =
                          Append(reports, ReportDescriptor(loggerMethod, selected))
        /\ UNCHANGED callVars
        /\ UNCHANGED exportVars

Next == \E n \in Nodes : CallExpression(n)

Spec == Init /\ [][Next]_vars

(***************************************************************************)
(* Top-level calls of isJsonSerializableType, one step at a time.          *)
(***************************************************************************)
Call == [stack |-> stack, seen |-> seen, ret |-> ret, expanded |-> expanded]

InProgress == root # NoType /\ ~Returned(Call)

\* A visited set kept from one top-level call to the next.
SharedSeen(previousSeen) == previousSeen

\* Line 137: the default parameter `seen = new Set()` of a top-level call;
\* previousSeen is the set the previous top-level call left behind.
DefaultSeen(previousSeen) == {}

SetCall(cfg) ==
    /\ stack' = cfg.stack
    /\ seen' = cfg.seen
    /\ ret' = cfg.ret
    /\ expanded' = cfg.expanded

\* A top-level call isJsonSerializableType(checker, type) begins.
Classify(type) ==
    /\ ~InProgress
    /\ root' = type
    /\ previousVerdict' = ret
    /\ repeated' = (type = root)
    /\ \E cfg \in {Invoke([FreshCall EXCEPT !.seen = DefaultSeen(seen)], type)} :
          SetCall(cfg)
    /\ UNCHANGED ruleVars
    /\ UNCHANGED exportVars

\* The calls in progress take their next step.
ClassifyStep ==
    /\ InProgress
    /\ \E cfg \in {ClassifyNext(Call)} : SetCall(cfg)
    /\ UNCHANGED <<root, previousVerdict, repeated>>
    /\ UNCHANGED ruleVars
    /\ UNCHANGED exportVars

ClassifySpecNext == (\E type \in Types : Classify(type)) \/ ClassifyStep

ClassifySpec == Init /\ [][ClassifySpecNext]_vars

\* The engine runs the rule synchronously: a call in progress proceeds.
FairClassifySpec == ClassifySpec /\ WF_vars(ClassifyStep)

(***************************************************************************)
(* Top-level calls with the members in any order.  The arrays the          *)
(* every(...) calls iterate (type.types, checker.getTypeArguments(type),   *)
(* type.getProperties()) come from the type checker, in the order the      *)
(* checker chooses.  A type is expanded at most once in a top-level call,  *)
(* so taking any of the remaining members at each step ranges over every   *)
(* order of every array.                                                   *)
(***************************************************************************)
\* The sequence without its i-th element.
Without(sequence, i) ==
    SubSeq(sequence, 1, i - 1) \o SubSeq(sequence, i + 1, Len(sequence))

\* An every(...) that tests all the members and answers as the last one.
ClassifyNextKeepingLastAnswer(cfg, i) ==
    LET depth == Len(cfg.stack)
        top   == cfg.stack[depth]
        below == SubSeq(cfg.stack, 1, depth - 1)
    IN  IF cfg.ret = "false" /\ top.rest = <<>>
        THEN [cfg EXCEPT !.stack = below]
        ELSE IF cfg.ret # "none"
        THEN [cfg EXCEPT !.ret = "none"]
        ELSE IF top.rest = <<>>
        THEN [cfg EXCEPT !.stack = below, !.ret = "true"]
        ELSE Invoke([cfg EXCEPT !.stack[depth].rest = Without(top.rest, i)],
                    top.rest[i])

\* Lines 176-244: one step of the calls in progress, where the checker has
\* put the i-th of the remaining members next.
ClassifyNextAt(cfg, i) ==
    LET depth == Len(cfg.stack)
        top   == cfg.stack[depth]
        below == SubSeq(cfg.stack, 1, depth - 1)
    IN  IF cfg.ret = "false"
        THEN [cfg EXCEPT !.stack = below]
        ELSE IF cfg.ret = "true"
        THEN [cfg EXCEPT !.ret = "none"]
        ELSE IF top.rest = <<>>
        THEN [cfg EXCEPT !.stack = below, !.ret = "true"]
        ELSE Invoke([cfg EXCEPT !.stack[depth].rest = Without(top.rest, i)],
                    top.rest[i])

\* The members the checker can have put next.
NextMembers ==
    IF ret = "none" /\ stack # <<>> /\ stack[Len(stack)].rest # <<>>
    THEN DOMAIN stack[Len(stack)].rest
    ELSE {1}

ClassifyStepAt(i) ==
    /\ InProgress
    /\ \E cfg \in {ClassifyNextAt(Call, i)} : SetCall(cfg)
    /\ UNCHANGED <<root, previousVerdict, repeated>>
    /\ UNCHANGED ruleVars
    /\ UNCHANGED exportVars

AnyOrderNext ==
    \/ \E type \in Types : Classify(type)
    \/ \E i \in NextMembers : ClassifyStepAt(i)

AnyOrderSpec == Init /\ [][AnyOrderNext]_vars

(***************************************************************************)
(* The no-deprecated-exports rule: create(context) and its two visitors.   *)
(***************************************************************************)
\* Lines 170-186: the last comment before the node, when it is a JSDoc
\* comment next to the node.
LastCommentAsJSDoc(lastComment, loc) ==
    IF lastComment.type # "Block" THEN NullComment
    ELSE IF \/ TrimStart(lastComment.value) = <<>>
            \/ Head(TrimStart(lastComment.value)) # "*"
    THEN NullComment
    ELSE IF ~lastComment.loc.present \/ ~loc.present THEN NullComment
    ELSE IF lastComment.loc.endLine < loc.startLine - 1 THEN NullComment
    ELSE lastComment

\* Lines 158-168: getJSDocComment first, then the comments before.
JSDocumentOf(info) ==
    IF sourceCode.getJSDocComment = "function" /\ info.jsdoc # NullComment
    THEN info.jsdoc
    ELSE IF info.commentsBefore = <<>> THEN NullComment
    ELSE LastCommentAsJSDoc(info.commentsBefore[Len(info.commentsBefore)],
                            info.loc)

\* Lines 151-187: getJSDocument(node), NullComment for null.
getJSDocument(n) ==
    IF n = NullNode THEN NullComment ELSE JSDocumentOf(ExportProgram[n])

\* Lines 206-213: the comment is there and holds the tag.
IsDeprecatedComment(comment) ==
    IF comment = NullComment THEN FALSE
    ELSE DEPRECATED_TAG_PATTERN(comment.value)

\* A reportIfDeprecated that does not look into inspectedNodes.
reportIfDeprecatedAgain(targetNode, reportNode) ==
    IF targetNode = NullNode
    THEN UNCHANGED <<inspectedNodes, inspections, deprecatedReports>>
    ELSE /\ inspectedNodes' = inspectedNodes \cup {targetNode}
         /\ inspections' = Append(inspections, targetNode)
         /\ IF ~IsDeprecatedComment(getJSDocument(targetNode))
            THEN UNCHANGED deprecatedReports
            ELSE deprecatedReports' =
                   Append(deprecatedReports,
                          [messageId |-> "noDeprecatedExports",
                           node |-> reportNode])

\* Lines 199-219: reportIfDeprecated(targetNode, reportNode).
reportIfDeprecated(targetNode, reportNode) ==
    IF targetNode = NullNode \/ targetNode \in inspectedNodes
    THEN UNCHANGED <<inspectedNodes, inspections, deprecatedReports>>
    ELSE /\ inspectedNodes' = inspectedNodes \cup {targetNode}
         /\ inspections' = Append(inspections, targetNode)
         /\ IF ~IsDeprecatedComment(getJSDocument(targetNode))
            THEN UNCHANGED deprecatedReports
            ELSE deprecatedReports' =
                   Append(deprecatedReports,
                          [messageId |-> "noDeprecatedExports",
                           node |-> reportNode])

\* Lines 138-145: create(context), up to the test of sourceCode.
create(context) ==
    /\ ~created
    /\ created' = TRUE
    /\ inspectedNodes' = {}
    /\ sourceCode' = IF context.sourceCode # UndefinedSourceCode
                     THEN context.sourceCode
                     ELSE context.getSourceCode
    /\ UNCHANGED <<deprecatedReports, inspections, exportVisits>>
    /\ UNCHANGED <<ruleVars, callVars>>

\* create returned the two visitors, not {}.
HasVisitors == created /\ sourceCode # UndefinedSourceCode

\* Lines 225-235: the ExportDefaultDeclaration visitor.
ExportDefaultDeclaration(n) ==
    /\ HasVisitors
    /\ ExportProgram[n].type = "ExportDefaultDeclaration"
    /\ Len(exportVisits) < MaxExportVisits
    /\ exportVisits' = Append(exportVisits, n)
    /\ IF /\ ExportProgram[n].declaration # NullNode
          /\ ExportProgram[ExportProgram[n].declaration].type # "Identifier"
       THEN reportIfDeprecated(ExportProgram[n].declaration, n)
       ELSE reportIfDeprecated(n, n)
    /\ UNCHANGED <<created, sourceCode>>
    /\ UNCHANGED <<ruleVars, callVars>>

\* Lines 240-247: the ExportNamedDeclaration visitor.
ExportNamedDeclaration(n) ==
    /\ HasVisitors
    /\ ExportProgram[n].type = "ExportNamedDeclaration"
    /\ Len(exportVisits) < MaxExportVisits
    /\ exportVisits' = Append(exportVisits, n)
    /\ IF ExportProgram[n].declaration # NullNode
       THEN reportIfDeprecated(ExportProgram[n].declaration, n)
       ELSE reportIfDeprecated(n, n)
    /\ UNCHANGED <<created, sourceCode>>
    /\ UNCHANGED <<ruleVars, callVars>>

ExportsNext ==
    \/ \E context \in Contexts : create(context)
    \/ \E n \in ExportNodes : ExportDefaultDeclaration(n)
    \/ \E n \in ExportNodes : ExportNamedDeclaration(n)

ExportsSpec == Init /\ [][ExportsNext]_vars

(***************************************************************************)
(* Vocabulary of the properties.                                           *)
(***************************************************************************)
\* The diagnostics the step reported.
Emitted == SubSeq(reports', Len(reports) + 1, Len(reports'))

\* The types a type is made of: members, type arguments, property types
\* and the string index type, at any depth.
Components(type) ==
    LET info == TypeInfo(type)
    IN  {info.types[i] : i \in DOMAIN info.types}
            \cup {info.properties[i].type : i \in DOMAIN info.properties}
            \cup (IF info.stringIndexType = NoType THEN {}
                  ELSE {info.stringIndexType})

RECURSIVE Closure(_)
Closure(types) ==
    LET next == types \cup UNION {Components(t) : t \in types}
    IN  IF next = types THEN types ELSE Closure(next)

Structure(type) == Closure({type})

\* Date, Map, Set, RegExp, Promise, function and bigint types.
NonSerializableBuiltins ==
    {<<"base", k>> : k \in {"Date", "Map", "Set", "RegExp", "Promise",
                            "Function", "fn", "ctor", "bigint", "big1"}}

\* The argument a logger method carries its context in.
ContextIndex(method) == IF method = "error" THEN 2 ELSE 1

IsLoggerCall(n) ==
    /\ n.callee.type = "MemberExpression"
    /\ ~n.callee.computed
    /\ n.callee.property.type = "Identifier"
    /\ n.callee.property.name \in {"action", "debug", "error", "info", "warn"}

ContextArgumentOf(n) ==
    IF ContextIndex(n.callee.property.name) < Len(n.arguments)
    THEN n.arguments[ContextIndex(n.callee.property.name) + 1]
    ELSE Undefined

LiteralShapes ==
    {"ArrayExpression", "Literal", "ObjectExpression", "TemplateLiteral"}

\* A logger call with a literal-shaped context argument.
IsCandidateCall(n) ==
    /\ IsLoggerCall(n)
    /\ Len(n.arguments) >= 2
    /\ ContextArgumentOf(n) # Undefined
    /\ ContextArgumentOf(n).type \in LiteralShapes

ViolationAt(n) ==
    [data |-> [method |-> n.callee.property.name],
     messageId |-> "loggerContextMustBeJsonSerializable",
     node |-> ContextArgumentOf(n)]

(***************************************************************************)
(* C1.  A candidate logger call whose context argument's type contains a   *)
(* Date, Map, Set, RegExp, Promise, function or bigint type anywhere in    *)
(* its structure is reported exactly once, at that argument.               *)
(***************************************************************************)
C1_NestedNonSerializableReported ==
    [][(/\ IsCandidateCall(node')
        /\ Structure(ContextArgumentOf(node').tsType)
              \cap NonSerializableBuiltins # {})
       => Emitted = <<ViolationAt(node')>>]_vars

(***************************************************************************)
(* C2.  A candidate logger call whose context argument's type is a plain   *)
(* object type with only JSON primitive properties (string, number,        *)
(* boolean, null, their literals, arrays of these) is judged serializable  *)
(* and is not reported.                                                    *)
(***************************************************************************)
JsonScalarTypes ==
    {<<"base", k>> : k \in {"string", "number", "boolean", "null", "true",
                            "false", "litUp", "litA", "litB", "lit2", "litNeg"}}

IsJsonPrimitiveType(type) ==
    \/ type \in JsonScalarTypes
    \/ /\ TypeInfo(type).isArray
       /\ Len(TypeInfo(type).types) = 1
       /\ TypeInfo(type).types[1] \in JsonScalarTypes

IsPlainJsonObject(type) ==
    LET info == TypeInfo(type)
    IN  /\ type \in Types
        /\ ~info.isUnion /\ ~info.isIntersection
        /\ ~info.isTuple /\ ~info.isArray
        /\ info.callSignatures = 0 /\ info.constructSignatures = 0
        /\ info.stringIndexType = NoType
        /\ info.name[1] = "{"
        /\ \A i \in DOMAIN info.properties :
              /\ info.properties[i].valueDeclaration
              /\ IsJsonPrimitiveType(info.properties[i].type)

C2_PlainJsonObjectAccepted ==
    [][(/\ IsCandidateCall(node')
        /\ IsPlainJsonObject(ContextArgumentOf(node').tsType))
       => /\ isJsonSerializableType(ContextArgumentOf(node').tsType)
          /\ contextType' = ContextArgumentOf(node').tsType
          /\ reports' = reports]_vars

C2_Witness ==
    /\ nVisits > 0
    /\ IsCandidateCall(node)
    /\ IsPlainJsonObject(contextType)
    /\ Len(TypeInfo(contextType).properties) = 2
    /\ \E i \in 1..2 : TypeInfo(contextType).properties[i].type = <<"base", "litNeg">>
    /\ contextArg = ContextArgumentOf(node)
    /\ reports = <<>>

(***************************************************************************)
(* C3.  A top-level call of isJsonSerializableType terminates, also on     *)
(* self-referential types; while it runs the visited set only grows, no    *)
(* type is expanded twice, and a call on a type already in the visited     *)
(* set returns true without expanding anything.                            *)
(***************************************************************************)
NoTypeExpandedTwice ==
    \A i, j \in DOMAIN expanded : expanded[i] = expanded[j] => i = j

\* The next step is a recursive call on a type that is already visited.
Revisiting ==
    /\ InProgress
    /\ ret = "none"
    /\ stack[Len(stack)].rest # <<>>
    /\ Head(stack[Len(stack)].rest) \in seen

C3_CyclesTerminate ==
    /\ []NoTypeExpandedTwice
    /\ [][InProgress => seen \subseteq seen']_vars
    /\ [][Revisiting => /\ ret' = "true"
                        /\ seen' = seen
                        /\ expanded' = expanded
                        /\ Len(stack') = Len(stack)]_vars
    /\ (InProgress ~> Returned(Call))

C3_Witness ==
    /\ root \in {<<"base", "Tree">>, <<"base", "List">>}
    /\ root \in UNION {Structure(c) : c \in Components(root)}
    /\ Returned(Call)
    /\ ret = "true"
    /\ Len(expanded) >= 2

(***************************************************************************)
(* C4.  The verdict on a union type is the conjunction of the verdicts on  *)
(* its members, each from a top-level call of its own; the same for an     *)
(* intersection type; whatever the canonical name of the type.             *)
(***************************************************************************)
C4_UnionIsConjunction ==
    (/\ root # NoType
     /\ Returned(Call)
     /\ TypeInfo(root).isUnion \/ TypeInfo(root).isIntersection)
    => ((ret = "true") <=>
            \A i \in DOMAIN TypeInfo(root).types :
                isJsonSerializableType(TypeInfo(root).types[i]))

(***************************************************************************)
(* C5.  Only the context argument (index 2 for error, index 1 for the      *)
(* other methods) is classified: a report is always at that argument and   *)
(* only when that argument's own type is not serializable, so an error     *)
(* call with two arguments is never reported.                              *)
(***************************************************************************)
C5_OnlyContextIndexInspected ==
    [][/\ contextType' # NoType =>
            /\ IsLoggerCall(node')
            /\ contextType' = ContextArgumentOf(node').tsType
       /\ Emitted # <<>> =>
            /\ IsLoggerCall(node')
            /\ ContextArgumentOf(node') # Undefined
            /\ ~isJsonSerializableType(ContextArgumentOf(node').tsType)
            /\ \A i \in DOMAIN Emitted :
                  Emitted[i].node = ContextArgumentOf(node')
       /\ (/\ IsLoggerCall(node')
           /\ node'.callee.property.name = "error"
           /\ Len(node'.arguments) = 2)
          => Emitted = <<>>]_vars

\* logger.error("up", { a: date }, identifier): the error slot holds a
\* non-serializable literal and nothing is reported.
C5_Witness ==
    /\ nVisits > 0
    /\ IsLoggerCall(node)
    /\ node.callee.property.name = "error"
    /\ Len(node.arguments) = 3
    /\ node.arguments[2].type = "ObjectExpression"
    /\ ~isJsonSerializableType(node.arguments[2].tsType)
    /\ contextArg = Undefined
    /\ reports = <<>>

(***************************************************************************)
(* C6.  A call that fails the syntactic gate (callee not a plain member    *)
(* access, method name not a logger method, fewer than two arguments, no   *)
(* argument at the context index, or one that is not an array, scalar,     *)
(* object or template literal) is never reported and its argument's type   *)
(* is never resolved, whatever that type is.                               *)
(***************************************************************************)
C6_SyntacticGateFirst ==
    [][~IsCandidateCall(node')
       => /\ reports' = reports
          /\ contextArg' = Undefined
          /\ contextType' = NoType]_vars

\* logger.debug("up", date): a forwarded identifier of a Date type.
C6_Witness ==
    /\ nVisits > 0
    /\ IsLoggerCall(node)
    /\ Len(node.arguments) >= 2
    /\ ContextArgumentOf(node).type \in {"Identifier", "SpreadElement"}
    /\ ~isJsonSerializableType(ContextArgumentOf(node).tsType)
    /\ contextType = NoType
    /\ reports = <<>>

(***************************************************************************)
(* C7.  Every visit reports at most one diagnostic, and one exactly when   *)
(* a context argument was selected and its type is not serializable; the   *)
(* diagnostic carries the message id, the called method and the selected   *)
(* argument; what earlier visits reported is kept and has no influence.    *)
(***************************************************************************)
C7_OneDiagnosticPerOffendingVisit ==
    [][/\ Len(reports') >= Len(reports)
       /\ SubSeq(reports', 1, Len(reports)) = reports
       /\ Len(Emitted) <= 1
       /\ Len(Emitted) = 1 <=>
            (contextArg' # Undefined /\ ~isJsonSerializableType(contextType'))
       /\ Len(Emitted) = 1 =>
            /\ Emitted[1].messageId = "loggerContextMustBeJsonSerializable"
            /\ Emitted[1].data.method = node'.callee.property.name
            /\ Emitted[1].node = contextArg'
            /\ contextArg' \in {node'.arguments[i] : i \in DOMAIN node'.arguments}
            /\ contextType' = contextArg'.tsType]_vars

\* Two visits, each of which reported: the second one a method other than
\* the first.
C7_Witness ==
    /\ nVisits = 2
    /\ Len(reports) = 2
    /\ reports[2].node = contextArg
    /\ reports[1].data.method # reports[2].data.method

(***************************************************************************)
(* C8.  logger.error("x", err, { cause: err }) with err: Error: the type   *)
(* Error is not serializable, so neither is the object literal's type, and *)
(* one violation is reported at the object literal.                        *)
(***************************************************************************)
ErrorCauseCall ==
    [callee |-> MemberCallee("error"),
     arguments |-> ToArguments(<<MessageShape,
                                 <<"Identifier", <<"base", "Error">>>>,
                                 <<"ObjectExpression", <<"object", "Error">>>>>>)]

C8_ErrorCauseReported ==
    [][node' = ErrorCauseCall
       => /\ ~isJsonSerializableType(<<"base", "Error">>)
          /\ ~isJsonSerializableType(<<"object", "Error">>)
          /\ Emitted = <<ViolationAt(ErrorCauseCall)>>]_vars

(***************************************************************************)
(* C9.  Every top-level call starts from an empty visited set and returns  *)
(* the verdict of the type alone: the same as a call with nothing before   *)
(* it, and the same as the previous call when that was for the same type.  *)
(***************************************************************************)
C9_VerdictIndependentOfHistory ==
    /\ []((root # NoType /\ Returned(Call))
            => /\ (ret = "true") <=> isJsonSerializableType(root)
               /\ (repeated /\ previousVerdict # "none")
                    => ret = previousVerdict)
    /\ [][~InProgress => /\ seen' = {root'}
                         /\ expanded' = <<root'>>]_vars

\* The same non-serializable type classified twice in a row.
C9_Witness ==
    /\ Returned(Call)
    /\ repeated
    /\ previousVerdict = "false"
    /\ ret = "false"
    /\ Len(expanded) >= 2

(***************************************************************************)
(* C10.  A class instance or branded type without own properties, whose    *)
(* name is not "{}", is not serializable; the type "{}" is.                *)
(***************************************************************************)
\* The class instances and branded types without properties in TypeTable.
OpaqueTypes == {<<"base", "Marker">>, <<"base", "Brand">>}

C10_OpaqueTypesRejected ==
    (root # NoType /\ Returned(Call))
    => /\ (/\ root \in OpaqueTypes
           /\ Len(TypeInfo(root).properties) = 0
           /\ typeToString(root) # <<"{", "}">>)
          => ret = "false"
       /\ root = <<"base", "emptyObject">> => ret = "true"

(***************************************************************************)
(* C11.  The visited set shared by the recursive calls never masks a       *)
(* failure.  Once a recursive call has returned false, every enclosing     *)
(* call returns false in turn and nothing more is expanded or visited, so  *)
(* no type that was rejected is met again and answered true.  Whatever     *)
(* the order of the members, elements and properties, the verdict of the   *)
(* top-level call is the verdict of the call that takes them in their      *)
(* listed order, and it is false exactly when a type reachable from the    *)
(* root through expanded types is rejected by a rule of its own.           *)
(***************************************************************************)
\* The members of the types that are expanded: decided by every(...).
RECURSIVE ExpandedReach(_)
ExpandedReach(types) ==
    LET members(t) == {ClassifyBodies[t].members[i] :
                         i \in DOMAIN ClassifyBodies[t].members}
        next == types \cup UNION {members(t) : t \in types}
    IN  IF next = types THEN types ELSE ExpandedReach(next)

\* A type rejected by a rule of its own: denylisted name, bigint literal,
\* call or construct signature, no property under a name other than "{}".
LocallyRejected(type) == ClassifyBodies[type].verdict = "false"

ReferenceVerdict(type) ==
    ~\E t \in ExpandedReach({type}) : LocallyRejected(t)

C11_VisitedSetNeverMasksFailure ==
    /\ [][(InProgress /\ ret = "false")
            => /\ ret' = "false"
               /\ seen' = seen
               /\ expanded' = expanded
               /\ Len(stack') = Len(stack) - 1]_vars
    /\ [](root # NoType /\ Returned(Call)
            => /\ (ret = "true") = ReferenceVerdict(root)
               /\ (ret = "true") = isJsonSerializableType(root))

\* A call on a visited type has just answered true, out of the listed
\* order, inside a root that has a rejected type still to be met.
C11_Witness ==
    /\ InProgress
    /\ ret = "true"
    /\ expanded[Len(expanded)] = stack[Len(stack)].type
    /\ stack[Len(stack)].rest # <<>>
    /\ LET listed == ClassifyBodies[stack[Len(stack)].type].members
       IN  stack[Len(stack)].rest = SubSeq(listed, 1, Len(listed) - 1)
    /\ ~ReferenceVerdict(root)
    /\ \A t \in seen : ~LocallyRejected(t)

(***************************************************************************)
(* C12.  no-deprecated-exports, over any sequence of visits of             *)
(* ExportDefaultDeclaration and ExportNamedDeclaration nodes by one        *)
(* create() instance: the target of an export is its declaration when it   *)
(* has one that is not a bare identifier, and the export node otherwise;   *)
(* every target is inspected at most once and has at most one              *)
(* noDeprecatedExports report; a visit whose target is already inspected   *)
(* inspects and reports nothing, whether or not the first inspection       *)
(* reported; and a report is made only for the export visited, when the    *)
(* closest JSDoc block comment of its target matches @deprecated.          *)
(***************************************************************************)
TargetOf(n) ==
    LET declaration == ExportProgram[n].declaration
    IN  IF declaration # NullNode /\ ExportProgram[declaration].type # "Identifier"
        THEN declaration
        ELSE n

\* The comments that can be the closest JSDoc comment of a node: the one
\* getJSDocComment finds, where the source code has the method, or else
\* the last comment before the node, when it is a block comment.
ClosestJSDoc(n) ==
    LET info == ExportProgram[n]
    IN  IF sourceCode.getJSDocComment = "function" /\ info.jsdoc # NullComment
        THEN {info.jsdoc}
        ELSE {info.commentsBefore[i] :
                i \in {j \in DOMAIN info.commentsBefore :
                         /\ j = Len(info.commentsBefore)
                         /\ info.commentsBefore[j].type = "Block"}}

\* The value holds @deprecated, in any letter case, not followed by a
\* letter, a digit or an underscore.
HoldsDeprecatedTag(value) ==
    \E i \in DOMAIN value :
        /\ i + 10 <= Len(value)
        /\ [k \in 1..11 |-> Canonicalize(value[i + k - 1])] = DEPRECATED_TAG
        /\ (i + 11 <= Len(value) => value[i + 11] \notin WordCharacters)

NoTargetInspectedTwice ==
    \A i, j \in DOMAIN inspections : inspections[i] = inspections[j] => i = j

ReportsOfTarget(target) ==
    {i \in DOMAIN deprecatedReports :
        TargetOf(deprecatedReports[i].node) = target}

\* The step is a visit of an export.
IsExportVisit == Len(exportVisits') = Len(exportVisits) + 1

VisitedExport == exportVisits'[Len(exportVisits')]

C12_TargetInspectedAtMostOnce ==
    /\ []NoTargetInspectedTwice
    /\ [](\A target \in ExportNodes \cup DeclarationNodes :
             Cardinality(ReportsOfTarget(target)) <= 1)
    /\ [][IsExportVisit =>
            /\ inspections' \in {inspections,
                                 Append(inspections, TargetOf(VisitedExport))}
            /\ TargetOf(VisitedExport) \in inspectedNodes'
            /\ (TargetOf(VisitedExport) \in inspectedNodes
                  => /\ deprecatedReports' = deprecatedReports
                     /\ inspections' = inspections
                     /\ inspectedNodes' = inspectedNodes)]_vars
    /\ [][deprecatedReports' # deprecatedReports =>
            /\ IsExportVisit
            /\ deprecatedReports' =
                 Append(deprecatedReports,
                        [messageId |-> "noDeprecatedExports",
                         node |-> VisitedExport])
            /\ \E comment \in ClosestJSDoc(TargetOf(VisitedExport)) :
                  HoldsDeprecatedTag(comment.value)]_vars

\* An export with a deprecated declaration was visited twice, with a
\* report the first time and none the second; between the two, another
\* export was visited whose target was inspected without a report.
C12_Witness ==
    /\ Len(exportVisits) = MaxExportVisits
    /\ exportVisits[1] = exportVisits[Len(exportVisits)]
    /\ exportVisits[2] # exportVisits[1]
    /\ TargetOf(exportVisits[1]) # exportVisits[1]
    /\ Len(deprecatedReports) = 1
    /\ deprecatedReports[1].node = exportVisits[1]
    /\ Len(inspections) = 2

====
